---- MODULE Spec2Model ----
(***************************************************************************)
(* Model of scripts/asana_sync.py: extraction of Asana references from a   *)
(* pull-request description, resolution of task ids, matching of routing   *)
(* rules against the changed files, and the merge of the composed block    *)
(* into a task's html_notes.                                               *)
(*                                                                         *)
(* Python strings are modelled as sequences of characters; a character is  *)
(* a one-character TLA+ string.  Characters outside ASCII carry a name     *)
(* ("SUP2" is U+00B2, SUPERSCRIPT TWO).  None is the one-element sequence  *)
(* <<"None">>, which no string of characters equals.                       *)
(***************************************************************************)
EXTENDS Integers, Sequences, FiniteSets, TLC

VARIABLES
    \* ---- main(): one invocation of the script
    pc,             \* position in main()
    dry_run,        \* args.dry_run
    env,            \* the four environment variables read at lines 114-117
    config,         \* load_config(args.config)
    pr_body,        \* pr.body (or the dry-run mock body)
    changed_files,  \* [f.filename for f in pr.get_files()]
    asana_urls,     \* get_asana_urls(pr_body)
    task_ids,       \* the deduplicated set built at lines 168-174
    matched_rules,  \* get_matching_rules(changed_files, config)
    append_html,    \* the composed block of lines 225-229
    pending,        \* task ids the for loop of line 206 has not reached yet
    task_id,        \* the loop variable
    current_html,   \* html_notes read for task_id in this iteration
    exit_code,      \* the process exit code: {} until main() ends, then {code}
    calls,          \* the external calls made so far, in order
    \* ---- the notes document of one task across repeated merges
    notes,          \* the task's html_notes as the tracker stores it
    notes0,         \* html_notes before the first merge
    block,          \* the composed block being merged
    hist,           \* per merge step: did it write, and the notes after it
    \* ---- extraction and resolution on one text
    text,           \* the description text
    urls,           \* get_asana_urls(text), once extracted
    resolved,       \* the pairs <<url, get_task_id_from_url(url)>> resolved so far
    phase,          \* "text" before extraction, "urls" after
    \* ---- rule matching on one configuration
    files,          \* the changed paths
    cfg,            \* the configuration
    matched,        \* get_matching_rules(files, cfg), once it has run
    ran             \* whether get_matching_rules has run

mainVars  == <<pc, dry_run, env, config, pr_body, changed_files, asana_urls,
               task_ids, matched_rules, append_html, pending, task_id,
               current_html, exit_code, calls>>
mergeVars == <<notes, notes0, block, hist>>
urlVars   == <<text, urls, resolved, phase>>
ruleVars  == <<files, cfg, matched, ran>>
vars      == <<mainVars, mergeVars, urlVars, ruleVars>>

(***************************************************************************)
(* Python values                                                           *)
(***************************************************************************)
None == <<"None">>

\* Python truthiness of an optional string or list: None and '' are false.
Truthy(x) == x /= None /\ x /= <<>>

\* s[i:i+len(pat)] == pat
IsPrefixAt(s, pat, i) ==
    /\ i + Len(pat) - 1 <= Len(s)
    /\ \A k \in 1..Len(pat) : s[i + k - 1] = pat[k]

\* Python's `pat in s`
Contains(s, pat) == \E i \in 1..(Len(s) - Len(pat) + 1) : IsPrefixAt(s, pat, i)

Min(S) == CHOOSE x \in S : \A y \in S : x <= y
Max(S) == CHOOSE x \in S : \A y \in S : x >= y

\* str.replace(old, new) tail from position i: every non-overlapping
\* occurrence of old, scanning left to right, is replaced.
RECURSIVE ReplaceFrom(_, _, _, _)
ReplaceFrom(s, old, new, i) ==
    LET occ == {k \in i..Len(s) : IsPrefixAt(s, old, k)}
    IN  IF occ = {} THEN SubSeq(s, i, Len(s))
        ELSE SubSeq(s, i, Min(occ) - 1) \o new
                 \o ReplaceFrom(s, old, new, Min(occ) + Len(old))

\* The concatenation of a sequence of strings.
RECURSIVE Concat(_)
Concat(ss) == IF ss = <<>> THEN <<>> ELSE Head(ss) \o Concat(Tail(ss))

\* All sequences over S of length lo..hi.
SeqsOf(S, lo, hi) == UNION {[1..n -> S] : n \in lo..hi}

(***************************************************************************)
(* append_to_html_notes                                                    *)
(***************************************************************************)
BodyOpen  == <<"<", "b", "o", "d", "y", ">">>
BodyClose == <<"<", "/", "b", "o", "d", "y", ">">>

\* A slip of the fallback branch: the block is not appended.
append_to_html_notes_dropping(current_html_, append_text_html) ==
    IF ~Truthy(current_html_)
    THEN BodyOpen \o append_text_html \o BodyClose
    ELSE IF Contains(current_html_, BodyClose)
         THEN ReplaceFrom(current_html_, BodyClose, append_text_html \o BodyClose, 1)
         ELSE current_html_

append_to_html_notes(current_html_, append_text_html) ==
    IF ~Truthy(current_html_)
    THEN BodyOpen \o append_text_html \o BodyClose
    ELSE IF Contains(current_html_, BodyClose)
         THEN ReplaceFrom(current_html_, BodyClose, append_text_html \o BodyClose, 1)
         ELSE current_html_ \o append_text_html

\* Lines 245-246: html_notes of None is read as ''.
NotesOrEmpty(h) == IF h = None THEN <<>> ELSE h

(***************************************************************************)
(* The merge step of main() (lines 245-257) applied repeatedly to the      *)
(* notes document of one task: read, idempotency check, merge, write.      *)
(***************************************************************************)
MaxDocPieces   == 3
MaxBlockPieces == 2
MaxSyncs       == 2

DocPieces   == {BodyOpen, BodyClose, <<"X">>, <<"Y">>}
BlockPieces == {<<"X">>, <<"Y">>, BodyClose}
MergeDocs   == {Concat(ps) : ps \in SeqsOf(DocPieces, 0, MaxDocPieces)}
MergeBlocks == {Concat(ps) : ps \in SeqsOf(BlockPieces, 1, MaxBlockPieces)}

IdleMain ==
    /\ pc = "idle" /\ dry_run = FALSE /\ env = <<>> /\ config = <<>>
    /\ pr_body = <<>> /\ changed_files = <<>> /\ asana_urls = {}
    /\ task_ids = {} /\ matched_rules = <<>> /\ append_html = <<>>
    /\ pending = {} /\ task_id = None /\ current_html = None
    /\ exit_code = {} /\ calls = <<>>
IdleMerge == notes = None /\ notes0 = None /\ block = <<>> /\ hist = <<>>
IdleUrl   == text = <<>> /\ urls = {} /\ resolved = {} /\ phase = "idle"
IdleRule  == files = <<>> /\ cfg = <<>> /\ matched = <<>> /\ ran = FALSE

InitMerge ==
    /\ notes \in MergeDocs \cup {None}
    /\ notes0 = notes
    /\ block \in MergeBlocks
    /\ hist = <<>>
    /\ IdleMain /\ IdleUrl /\ IdleRule

\* One run of lines 245-257 against the stored document.
Sync ==
    /\ Len(hist) < MaxSyncs
    /\ LET cur == NotesOrEmpty(notes) IN
         IF Contains(cur, block)
         THEN /\ notes' = notes
              /\ hist' = Append(hist, [merged |-> FALSE, notes |-> cur])
         ELSE /\ notes' = append_to_html_notes(cur, block)
              /\ hist' = Append(hist, [merged |-> TRUE, notes |-> notes'])
    /\ UNCHANGED <<notes0, block, mainVars, urlVars, ruleVars>>

NextMerge == Sync
SpecMerge == InitMerge /\ [][NextMerge]_vars

\* C1: merging the same non-empty block twice writes on the first call when
\* the block does not occur in the document, never writes on a later call,
\* and leaves the document of the first call unchanged.
MergeIdempotent ==
    /\ Len(hist) >= 1 =>
         (~Contains(NotesOrEmpty(notes0), block) => hist[1].merged)
    /\ \A k \in 2..Len(hist) :
         /\ ~hist[k].merged
         /\ hist[k].notes = hist[k - 1].notes

MergeIdempotentWitness ==
    /\ Len(hist) = 2
    /\ hist[1].merged
    /\ ~hist[2].merged
    /\ Contains(NotesOrEmpty(notes0), BodyClose)

\* C2: a block that does not occur in the document is placed (i) inside a
\* new <body></body> when the document is empty, (ii) immediately before
\* one closing marker with every other character unchanged when the
\* document has a closing marker, (iii) at the end otherwise.
InsertedAt(D, B, i) == SubSeq(D, 1, i - 1) \o B \o SubSeq(D, i, Len(D))

MergePlacement ==
    (Len(hist) >= 1 /\ hist[1].merged) =>
      LET D == NotesOrEmpty(notes0)
          R == hist[1].notes
      IN  /\ D = <<>> => R = BodyOpen \o block \o BodyClose
          /\ Contains(D, BodyClose) =>
               \E i \in 1..Len(D) :
                   IsPrefixAt(D, BodyClose, i) /\ R = InsertedAt(D, block, i)
          /\ (D /= <<>> /\ ~Contains(D, BodyClose)) => R = D \o block

\* The closing marker occurs at exactly one position of D.
OneMarker(D) == Cardinality({i \in 1..Len(D) : IsPrefixAt(D, BodyClose, i)}) = 1

\* C2 restricted to documents with at most one closing marker.
MergePlacementOneMarker ==
    (Len(hist) >= 1 /\ hist[1].merged) =>
      LET D == NotesOrEmpty(notes0)
          R == hist[1].notes
      IN  /\ D = <<>> => R = BodyOpen \o block \o BodyClose
          /\ OneMarker(D) =>
               \E i \in 1..Len(D) :
                   IsPrefixAt(D, BodyClose, i) /\ R = InsertedAt(D, block, i)
          /\ (D /= <<>> /\ ~Contains(D, BodyClose)) => R = D \o block

(***************************************************************************)
(* get_asana_urls                                                          *)
(***************************************************************************)
\* "https://app.asana.com/", the literal prefix of the regex of line 41.
Prefix == <<"h", "t", "t", "p", "s", ":", "/", "/", "a", "p", "p", ".",
            "a", "s", "a", "n", "a", ".", "c", "o", "m", "/">>

\* Characters \S rejects, among those of the modelled texts.
Whitespace == {" ", "\n"}

\* The characters line 46 strips.
StopSet == {")", "]", "}", ">", ".", ",", ";", ":", "\"", "'"}

\* The last index of the run of non-whitespace characters that starts at i.
RunEnd(s, i) ==
    Min({e \in i..Len(s) : s[e] \in Whitespace} \cup {Len(s) + 1}) - 1

\* re.findall(r'https://app\.asana\.com/\S+', s) from position i: leftmost
\* non-overlapping matches, \S+ greedy and at least one character long.
RECURSIVE FindAll(_, _)
FindAll(s, i) ==
    LET starts == {k \in i..Len(s) : /\ IsPrefixAt(s, Prefix, k)
                                     /\ k + Len(Prefix) <= Len(s)
                                     /\ s[k + Len(Prefix)] \notin Whitespace}
    IN  IF starts = {} THEN <<>>
        ELSE LET k == Min(starts)
                 e == RunEnd(s, k + Len(Prefix))
             IN  <<SubSeq(s, k, e)>> \o FindAll(s, e + 1)

\* A slip of str.rstrip: only the last character is looked at.
rstrip_once(s, chars) ==
    IF s /= <<>> /\ s[Len(s)] \in chars THEN SubSeq(s, 1, Len(s) - 1) ELSE s

\* str.rstrip(chars): every trailing character of chars is removed.
rstrip(s, chars) ==
    LET drop == Min({d \in 0..Len(s) : d = Len(s) \/ s[Len(s) - d] \notin chars})
    IN  SubSeq(s, 1, Len(s) - drop)

Range(f) == {f[i] : i \in DOMAIN f}

\* Lines 43-47: the cleaned match list, duplicates kept.
cleaned_urls(raw_matches) ==
    [i \in DOMAIN raw_matches |-> rstrip(raw_matches[i], StopSet)]

\* list(set(cleaned_urls)): the order of the list is unspecified, so the
\* result is modelled as the set.
get_asana_urls(pr_body_) ==
    IF ~Truthy(pr_body_) THEN {}
    ELSE Range(cleaned_urls(FindAll(pr_body_, 1)))

(***************************************************************************)
(* get_task_id_from_url                                                    *)
(***************************************************************************)
\* str.split(sep) on a one-character separator, from position i: the pieces
\* between consecutive separators, empty pieces included.
RECURSIVE SplitFrom(_, _, _)
SplitFrom(s, sep, i) ==
    LET next == Min({k \in i..Len(s) : s[k] = sep} \cup {Len(s) + 1})
    IN  <<SubSeq(s, i, next - 1)>>
            \o (IF next > Len(s) THEN <<>> ELSE SplitFrom(s, sep, next + 1))

Split(s, sep) == SplitFrom(s, sep, 1)

\* The ASCII decimal digits.
DecimalDigits == {"0", "1", "2", "3", "4", "5", "6", "7", "8", "9"}

\* Characters c with c.isdigit(): Unicode Numeric_Type Digit or Decimal.
\* Among the modelled characters these are the ASCII digits and U+00B2.
IsDigitChars == DecimalDigits \cup {"SUP2"}

\* str.isdigit(): non-empty and every character a digit character.
isdigit(p) == p /= <<>> /\ \A k \in 1..Len(p) : p[k] \in IsDigitChars

NonEmpty(p) == p /= <<>>

\* Line 85: [p for p in parts if p]
PathParts(url) == SelectSeq(Split(Split(url, "?")[1], "/"), NonEmpty)

\* Lines 89-93: the parts are scanned from the last to the first.
RECURSIVE ScanBack(_, _)
ScanBack(parts, k) ==
    IF k = 0 THEN None
    ELSE IF isdigit(parts[k]) THEN parts[k]
    ELSE ScanBack(parts, k - 1)

get_task_id_from_url(url) ==
    LET parts == PathParts(url) IN ScanBack(parts, Len(parts))

(***************************************************************************)
(* Extraction and resolution on one description text                       *)
(***************************************************************************)
MaxTextPieces == 4

TextPieces == {Prefix, <<"1", "/">>, <<"2", "/">>, <<"1">>, <<"f">>, <<"/">>,
               <<"?">>, <<")">>, <<" ">>, <<"SUP2">>}
Texts == {Concat(ps) : ps \in SeqsOf(TextPieces, 0, MaxTextPieces)}

InitUrl ==
    /\ text \in Texts \cup {None}
    /\ urls = {}
    /\ resolved = {}
    /\ phase = "text"
    /\ IdleMain /\ IdleMerge /\ IdleRule

Extract ==
    /\ phase = "text"
    /\ urls' = get_asana_urls(text)
    /\ phase' = "urls"
    /\ UNCHANGED <<text, resolved, mainVars, mergeVars, ruleVars>>

Resolve(u) ==
    /\ phase = "urls"
    /\ \A r \in resolved : r[1] /= u
    /\ resolved' = resolved \cup {<<u, get_task_id_from_url(u)>>}
    /\ UNCHANGED <<text, urls, phase, mainVars, mergeVars, ruleVars>>

NextUrl == Extract \/ \E u \in urls : Resolve(u)
SpecUrl == InitUrl /\ [][NextUrl]_vars

\* A part made of ASCII decimal digits only.
IsDecimal(p) == p /= <<>> /\ \A k \in 1..Len(p) : p[k] \in DecimalDigits

\* The claim about one resolved pair: the id is the last decimal part of
\* the path, none exactly when there is no such part.
LastDecimalPart(u, t) ==
    LET parts == PathParts(u)
        dec   == {k \in 1..Len(parts) : IsDecimal(parts[k])}
    IN  /\ (t = None) <=> (dec = {})
        /\ dec /= {} => t = parts[Max(dec)]
        /\ t /= None => IsDecimal(t)

\* C3: get_task_id_from_url returns the last path segment that consists only
\* of decimal digits, none exactly when there is no such segment, and a
\* returned id is a non-empty string of decimal digits.
TaskIdIsLastDecimalSegment ==
    \A r \in resolved : LastDecimalPart(r[1], r[2])

\* C3 on the references whose characters are all ASCII.
TaskIdIsLastDecimalSegmentAscii ==
    \A r \in resolved :
        (\A k \in 1..Len(r[1]) : r[1][k] /= "SUP2") => LastDecimalPart(r[1], r[2])

\* The reference text[i..j] is a raw match start followed by exactly one
\* stop-set character and then whitespace or the end of the text.
FollowedByStop(i, j) ==
    /\ IsPrefixAt(text, Prefix, i)
    /\ j >= i + Len(Prefix) - 1
    /\ j + 1 <= Len(text)
    /\ \A k \in i..j : text[k] \notin Whitespace
    /\ text[j] \notin StopSet
    /\ text[j + 1] \in StopSet
    /\ (j + 2 > Len(text) \/ text[j + 2] \in Whitespace)
    /\ ~\E k \in 1..(i - 1) :
           IsPrefixAt(text, Prefix, k) /\ \A m \in k..i : text[m] \notin Whitespace

Glob(tok, name) == tok = "*" \/ tok = name

\* gitwildmatch normalisation of the split pattern: a leading '/' anchors
\* to the root, a pattern of one segment matches at any depth, a trailing
\* '/' stands for everything below the directory.
Normalize(segs) ==
    LET anchored == IF segs[1] = "" THEN Tail(segs)
                    ELSE IF (Len(segs) = 1 \/ (Len(segs) = 2 /\ segs[2] = ""))
                            /\ segs[1] /= "**"
                         THEN <<"**">> \o segs
                         ELSE segs
    IN  IF Len(anchored) > 1 /\ anchored[Len(anchored)] = ""
        THEN SubSeq(anchored, 1, Len(anchored) - 1) \o <<"**">>
        ELSE anchored

\* The regex gitwildmatch builds from the normalised segments: a leading or
\* inner '**' spans zero or more names, a trailing '**' at least one, and a
\* pattern that ends on a name also matches everything below that name.
RECURSIVE SegsMatch(_, _)
SegsMatch(pat, path) ==
    IF pat = <<>> THEN TRUE
    ELSE IF Head(pat) = "**"
         THEN IF Len(pat) = 1 THEN path /= <<>>
              ELSE \E k \in 0..Len(path) :
                       SegsMatch(Tail(pat), SubSeq(path, k + 1, Len(path)))
         ELSE /\ path /= <<>>
              /\ Glob(Head(pat), Head(path))
              /\ SegsMatch(Tail(pat), Tail(path))

\* pattern.match_file(f) is not None
Hit(pattern, f) == pattern.segs /= <<>> /\ SegsMatch(Normalize(pattern.segs), f)

\* PathSpec.match_file: the last pattern line that hits the file decides,
\* a '!' line excluding the file again.
RECURSIVE MatchFileFrom(_, _, _, _)
MatchFileFrom(patterns, f, k, include) ==
    IF k > Len(patterns) THEN include
    ELSE MatchFileFrom(patterns, f, k + 1,
                       IF Hit(patterns[k], f) THEN ~patterns[k].neg ELSE include)

match_file(patterns, f) == MatchFileFrom(patterns, f, 1, FALSE)

\* rule.get('paths', [])
RulePaths(rule) == IF rule.has_paths THEN rule.paths ELSE <<>>

\* A slip of line 69: all() in place of any().
AllFilesMatch(rule, changed_files_) ==
    \A i \in 1..Len(changed_files_) : match_file(RulePaths(rule), changed_files_[i])

\* Line 69: any(spec.match_file(f) for f in changed_files)
AnyFileMatches(rule, changed_files_) ==
    \E i \in 1..Len(changed_files_) : match_file(RulePaths(rule), changed_files_[i])

\* `not config`: None and the empty dict are false.
ConfigFalsy(config_) == config_.none \/ (~config_.has_rules /\ ~config_.has_other)

\* config.get('rules', [])
ConfigRules(config_) == IF config_.has_rules THEN config_.rules ELSE <<>>

\* Lines 62-70: the for loop over the rules from rule k on.
RECURSIVE MatchRulesFrom(_, _, _)
MatchRulesFrom(rules, changed_files_, k) ==
    IF k > Len(rules) THEN <<>>
    ELSE (IF AnyFileMatches(rules[k], changed_files_)
          THEN <<[team |-> rules[k].team, text |-> rules[k].text]>>
          ELSE <<>>)
         \o MatchRulesFrom(rules, changed_files_, k + 1)

get_matching_rules(changed_files_, config_) ==
    IF ConfigFalsy(config_) THEN <<>>
    ELSE MatchRulesFrom(ConfigRules(config_), changed_files_, 1)

(***************************************************************************)
(* Rule matching on one configuration and one list of changed paths        *)
(***************************************************************************)
MaxFiles    == 2
MaxPatterns == 2
MaxRules    == 2

Paths == {<<"frontend", "app.js">>, <<"frontend", "lib", "x.js">>,
          <<"backend", "api.py">>}

\* "frontend/**" and "!frontend/app.js"
Patterns == {[neg |-> FALSE, segs |-> <<"frontend", "**">>],
             [neg |-> TRUE,  segs |-> <<"frontend", "app.js">>]}

\* The rule declared at position k: its team and text name the position.
RulesAt(k) ==
    {[team |-> k, text |-> k, has_paths |-> TRUE, paths |-> ps] :
        ps \in SeqsOf(Patterns, 0, MaxPatterns)}
    \cup {[team |-> k, text |-> k, has_paths |-> FALSE, paths |-> <<>>]}

RuleLists ==
    UNION {{rs \in [1..n -> UNION {RulesAt(k) : k \in 1..n}] :
                \A k \in 1..n : rs[k] \in RulesAt(k)} : n \in 0..MaxRules}

ConfigNone    == [none |-> TRUE,  has_rules |-> FALSE, has_other |-> FALSE, rules |-> <<>>]
ConfigEmpty   == [none |-> FALSE, has_rules |-> FALSE, has_other |-> FALSE, rules |-> <<>>]
ConfigNoRules == [none |-> FALSE, has_rules |-> FALSE, has_other |-> TRUE,  rules |-> <<>>]
Configs ==
    {ConfigNone, ConfigEmpty, ConfigNoRules}
    \cup {[none |-> FALSE, has_rules |-> TRUE, has_other |-> FALSE, rules |-> rs] :
             rs \in RuleLists}

InitRule ==
    /\ files \in SeqsOf(Paths, 0, MaxFiles)
    /\ cfg \in Configs
    /\ matched = <<>>
    /\ ran = FALSE
    /\ IdleMain /\ IdleMerge /\ IdleUrl

Match ==
    /\ ~ran
    /\ matched' = get_matching_rules(files, cfg)
    /\ ran' = TRUE
    /\ UNCHANGED <<files, cfg, mainVars, mergeVars, urlVars>>

NextRule == Match
SpecRule == InitRule /\ [][NextRule]_vars

\* The n-th smallest element of a set of numbers.
Nth(I, n) == CHOOSE i \in I : Cardinality({j \in I : j < i}) = n - 1

\* matched lists exactly the rules whose index is in I, in declaration order.
ListsExactly(I) ==
    /\ Len(matched) = Cardinality(I)
    /\ \A n \in 1..Len(matched) :
         LET rule == ConfigRules(cfg)[Nth(I, n)]
         IN  matched[n] = [team |-> rule.team, text |-> rule.text]

\* Some changed path satisfies some (including) pattern of the rule.
SatisfiesSomePattern(rule) ==
    \E i \in 1..Len(files) : \E k \in 1..Len(RulePaths(rule)) :
        ~RulePaths(rule)[k].neg /\ Hit(RulePaths(rule)[k], files[i])

\* For some changed path, the last pattern of the rule the path satisfies
\* is not a '!' pattern.
LastHitIncludes(rule) ==
    \E i \in 1..Len(files) : \E k \in 1..Len(RulePaths(rule)) :
        /\ Hit(RulePaths(rule)[k], files[i])
        /\ ~RulePaths(rule)[k].neg
        /\ \A j \in (k + 1)..Len(RulePaths(rule)) :
               Hit(RulePaths(rule)[j], files[i]) => ~RulePaths(rule)[j].neg

NoRulesSection == cfg.none \/ ~cfg.has_rules

\* C5 as stated: the result lists exactly the rules some pattern of which is
\* satisfied by some changed path, once each and in declaration order, and
\* is empty for an empty configuration or one without a rules section.
RuleMatchingAnyPattern ==
    ran =>
        /\ ListsExactly({k \in 1..Len(ConfigRules(cfg)) :
                            SatisfiesSomePattern(ConfigRules(cfg)[k])})
        /\ NoRulesSection => matched = <<>>

\* C5 amended: the result lists exactly the rules for which the last pattern
\* satisfied by some changed path is not a '!' pattern, once each and in
\* declaration order; a rule with no patterns is never listed, and the
\* result is empty for an empty configuration or one without rules section.
RuleMatchingLastPattern ==
    ran =>
        /\ ListsExactly({k \in 1..Len(ConfigRules(cfg)) :
                            LastHitIncludes(ConfigRules(cfg)[k])})
        /\ \A n \in 1..Len(matched) : \E k \in 1..Len(ConfigRules(cfg)) :
               /\ matched[n].team = ConfigRules(cfg)[k].team
               /\ RulePaths(ConfigRules(cfg)[k]) /= <<>>
        /\ NoRulesSection => matched = <<>>

RuleMatchingWitness ==
    /\ ran
    /\ Len(ConfigRules(cfg)) = 2
    /\ Len(files) = 2
    /\ Len(matched) = 1
    /\ matched[1].team = 2
    /\ SatisfiesSomePattern(ConfigRules(cfg)[1])

(***************************************************************************)
(* main()                                                                  *)
(***************************************************************************)
\* Line 119: any of the four inputs is None or ''.
MissingRequiredTokenOnly(env_) == ~Truthy(env_.GITHUB_TOKEN)

MissingRequired(env_) ==
    \/ ~Truthy(env_.GITHUB_TOKEN)
    \/ ~Truthy(env_.ASANA_ACCESS_TOKEN)
    \/ ~Truthy(env_.GITHUB_REPOSITORY)
    \/ ~Truthy(env_.PR_NUMBER)

\* sys.exit(0) of lines 163 and 178, and the return of main() at line 262.
NoUrlsExitCode == 0
NoIdsExitCode  == 0
ReturnExitCode == 0

\* A slip of line 121: the fatal path exits like a run with nothing to do.
FatalExitCodeSuccess == NoUrlsExitCode

\* sys.exit(1) of line 121.
FatalExitCode == 1

\* load_config: a missing or unparsable file and an empty document all
\* give the empty dict.
load_config(file) ==
    IF ~file.exists \/ ~file.parses \/ ConfigFalsy(file.yaml)
    THEN ConfigEmpty
    ELSE file.yaml

\* The dry-run mock data of lines 132-141.
MockBody ==
    <<"\n", " ", " ", " ", " ", " ", " ", " ", " ", "T", "h", "i", "s",
      " ", "i", "s", " ", "a", " ", "t", "e", "s", "t", " ", "P", "R", ".",
      "\n", " ", " ", " ", " ", " ", " ", " ", " ", "H", "e", "r", "e",
      " ", "i", "s", " ", "t", "h", "e", " ", "t", "a", "s", "k", ":", " ",
      "h", "t", "t", "p", "s", ":", "/", "/", "a", "p", "p", ".", "a", "s",
      "a", "n", "a", ".", "c", "o", "m", "/", "0", "/", "1", "2", "3", "/",
      "4", "5", "6", "7", "8", "9", "/", "f", "\n", " ", " ", " ", " ",
      " ", " ", " ", " ", "A", "l", "s", "o", " ", "s", "e", "e", " ", "[",
      "R", "e", "l", "a", "t", "e", "d", " ", "T", "a", "s", "k", "]", "(",
      "h", "t", "t", "p", "s", ":", "/", "/", "a", "p", "p", ".", "a", "s",
      "a", "n", "a", ".", "c", "o", "m", "/", "0", "/", "1", "1", "1", "/",
      "2", "2", "2", ")", ".", "\n", " ", " ", " ", " ", " ", " ", " ",
      " ", "D", "u", "p", "l", "i", "c", "a", "t", "e", " ", "l", "i", "n",
      "k", ":", " ", "h", "t", "t", "p", "s", ":", "/", "/", "a", "p", "p",
      ".", "a", "s", "a", "n", "a", ".", "c", "o", "m", "/", "0", "/", "1",
      "2", "3", "/", "4", "5", "6", "7", "8", "9", "\n", " ", " ", " ",
      " ", " ", " ", " ", " ">>

MockFiles == <<<<"frontend", "app.js">>, <<"backend", "api.py">>>>

\* A slip of lines 168-174: the first unresolvable reference ends the scan
\* with nothing resolved.
TaskIdsStopping(asana_urls_) ==
    IF \E u \in asana_urls_ : get_task_id_from_url(u) = None
    THEN {}
    ELSE {get_task_id_from_url(u) : u \in asana_urls_}

\* Lines 168-174: the set of the ids of the references that resolve.
TaskIds(asana_urls_) ==
    {get_task_id_from_url(u) : u \in asana_urls_} \ {None}

\* Lines 225-229: "<br><br>" + "<br><br>".join(updates).  TEAM_LABEL is
\* the literal label text of line 227.
Br == <<"<", "b", "r", ">">>
RuleHtml(rule) ==
    <<"<", "s", "t", "r", "o", "n", "g", ">", "TEAM_LABEL">> \o rule.team
        \o <<"<", "/", "s", "t", "r", "o", "n", "g", ">">> \o Br \o rule.text

RECURSIVE Join(_, _)
Join(sep, ss) ==
    IF ss = <<>> THEN <<>>
    ELSE IF Len(ss) = 1 THEN ss[1]
    ELSE ss[1] \o sep \o Join(sep, Tail(ss))

ComposeBlock(matched_rules_) ==
    Br \o Br \o Join(Br \o Br, [k \in DOMAIN matched_rules_ |-> RuleHtml(matched_rules_[k])])

\* A slip of line 249: the idempotency check never finds the block.
AlreadyUpdatedNever(current_html_, append_html_) == FALSE

\* Line 249: append_html in current_html
AlreadyUpdated(current_html_, append_html_) == Contains(current_html_, append_html_)

\* A slip of lines 220 and 258: the exception is not caught and ends main().
ExceptNothing(next) == "abort"

\* Lines 220-221 and 258-259: the ApiException is caught and logged, and
\* main() goes on at `next`.
ExceptApiException(next) == next

\* ---- the inputs of one invocation
MaxBodyPieces == 3

Url(tail) == Prefix \o tail
BodyPieces == {Url(<<"0", "/", "1", "/", "2", "/", "f">>),
               Url(<<"0", "/", "1", "/", "2", ")", ".">>),
               Url(<<"0", "/", "3">>),
               Url(<<"f">>),
               <<" ">>}
Bodies == {Concat(ps) : ps \in SeqsOf(BodyPieces, 0, MaxBodyPieces)} \cup {None}

FileLists == {<<>>, <<<<"frontend", "app.js">>>>, MockFiles}

UiRule  == [team |-> <<"U", "I">>, text |-> <<"u">>, has_paths |-> TRUE,
            paths |-> <<[neg |-> FALSE, segs |-> <<"frontend", "**">>]>>]
ApiRule == [team |-> <<"A", "P", "I">>, text |-> <<"a">>, has_paths |-> TRUE,
            paths |-> <<[neg |-> FALSE, segs |-> <<"backend", "**">>]>>]
ConfigFiles ==
    {[exists |-> FALSE, parses |-> TRUE, yaml |-> ConfigNone],
     [exists |-> TRUE, parses |-> FALSE, yaml |-> ConfigNone],
     [exists |-> TRUE, parses |-> TRUE, yaml |-> ConfigNone],
     [exists |-> TRUE, parses |-> TRUE, yaml |->
        [none |-> FALSE, has_rules |-> TRUE, has_other |-> FALSE,
         rules |-> <<UiRule, ApiRule>>]]}

EnvValues == {None, <<>>, <<"v">>}
Envs == [GITHUB_TOKEN : EnvValues, ASANA_ACCESS_TOKEN : EnvValues,
         GITHUB_REPOSITORY : EnvValues, PR_NUMBER : EnvValues]

\* html_notes the tracker may hold for a task when it is read.
NotesDocs(append_html_) ==
    {None, <<"X">>, BodyOpen \o <<"X">> \o BodyClose,
     BodyOpen \o <<"X">> \o append_html_ \o BodyClose}

Call(op, task, ok, data) == [op |-> op, task |-> task, ok |-> ok, data |-> data]

Init ==
    /\ pc = "start"
    /\ dry_run \in BOOLEAN
    /\ env \in Envs
    /\ config = ConfigEmpty
    /\ pr_body = None
    /\ changed_files = <<>>
    /\ asana_urls = {}
    /\ task_ids = {}
    /\ matched_rules = <<>>
    /\ append_html = <<>>
    /\ pending = {}
    /\ task_id = None
    /\ current_html = None
    /\ exit_code = {}
    /\ calls = <<>>
    /\ IdleMerge /\ IdleUrl /\ IdleRule

\* Lines 159-181 on the pull request's body and files.
Prepare(body, files_, config_) ==
    /\ pr_body' = body
    /\ changed_files' = files_
    /\ asana_urls' = get_asana_urls(body)
    /\ IF asana_urls' = {}
       THEN /\ pc' = "done" /\ exit_code' = {NoUrlsExitCode}
            /\ UNCHANGED <<task_ids, pending, matched_rules>>
       ELSE /\ task_ids' = TaskIds(asana_urls')
            /\ IF task_ids' = {}
               THEN /\ pc' = "done" /\ exit_code' = {NoIdsExitCode}
                    /\ UNCHANGED <<pending, matched_rules>>
               ELSE /\ matched_rules' = get_matching_rules(files_, config_)
                    /\ pending' = task_ids'
                    /\ pc' = "loop"
                    /\ UNCHANGED exit_code

\* Lines 111-143: the arguments, the environment check, the configuration
\* and, in a dry run, the mock pull request.
Start ==
    /\ pc = "start"
    /\ IF ~dry_run /\ MissingRequired(env)
       THEN /\ pc' = "done"
            /\ exit_code' = {FatalExitCode}
            /\ UNCHANGED <<config, pr_body, changed_files, asana_urls,
                           task_ids, pending, matched_rules>>
       ELSE \E file \in ConfigFiles :
              /\ config' = load_config(file)
              /\ IF dry_run
                 THEN Prepare(MockBody, MockFiles, config')
                 ELSE /\ pc' = "github"
                      /\ UNCHANGED <<pr_body, changed_files, asana_urls, task_ids,
                                     pending, matched_rules, exit_code>>
    /\ UNCHANGED <<dry_run, env, append_html, task_id, current_html, calls,
                   mergeVars, urlVars, ruleVars>>

\* Lines 145-181: the pull request is fetched from GitHub.
FetchPR ==
    /\ pc = "github"
    /\ \E body \in Bodies : \E fl \in FileLists :
         /\ calls' = Append(calls, Call("get_pull", None, TRUE, None))
         /\ Prepare(body, fl, config)
    /\ UNCHANGED <<dry_run, env, config, append_html, task_id, current_html,
                   mergeVars, urlVars, ruleVars>>

\* Line 206: the next task id of the set, in any order, or the end of main().
LoopNext ==
    /\ pc = "loop"
    /\ IF pending = {}
       THEN /\ pc' = "done"
            /\ exit_code' = {ReturnExitCode}
            /\ UNCHANGED <<pending, task_id>>
       ELSE /\ \E t \in pending :
                 /\ task_id' = t
                 /\ pending' = pending \ {t}
            /\ pc' = "comment"
            /\ UNCHANGED exit_code
    /\ UNCHANGED <<dry_run, env, config, pr_body, changed_files, asana_urls,
                   task_ids, matched_rules, append_html, current_html, calls,
                   mergeVars, urlVars, ruleVars>>

\* Where main() goes once it is at `next`: an uncaught exception ends it.
GoTo(next) ==
    /\ pc' = next
    /\ exit_code' = IF next = "abort" THEN {FatalExitCode} ELSE exit_code

\* Lines 223-233: after the comment, the block is composed when rules matched.
AfterComment == IF matched_rules = <<>> \/ dry_run THEN "loop" ELSE "get_task"

\* Lines 209-233: the comment is posted, then the block is composed.
PostComment ==
    /\ pc = "comment"
    /\ IF dry_run
       THEN /\ calls' = calls
            /\ GoTo(AfterComment)
       ELSE \E ok \in BOOLEAN :
              /\ calls' = Append(calls, Call("create_story", task_id, ok, None))
              /\ GoTo(IF ok THEN AfterComment ELSE ExceptApiException(AfterComment))
    /\ append_html' = IF pc' = "abort" \/ matched_rules = <<>> THEN append_html
                      ELSE ComposeBlock(matched_rules)
    /\ UNCHANGED <<dry_run, env, config, pr_body, changed_files, asana_urls,
                   task_ids, matched_rules, pending, task_id, current_html,
                   mergeVars, urlVars, ruleVars>>

\* Lines 236-250: html_notes is read and checked for the block.
GetTask ==
    /\ pc = "get_task"
    /\ \E ok \in BOOLEAN : \E d \in NotesDocs(append_html) :
         IF ok
         THEN /\ calls' = Append(calls, Call("get_task", task_id, TRUE, d))
              /\ current_html' = NotesOrEmpty(d)
              /\ GoTo(IF AlreadyUpdated(current_html', append_html)
                      THEN "loop" ELSE "update_task")
         ELSE /\ calls' = Append(calls, Call("get_task", task_id, FALSE, None))
              /\ current_html' = current_html
              /\ GoTo(ExceptApiException("loop"))
    /\ UNCHANGED <<dry_run, env, config, pr_body, changed_files, asana_urls,
                   task_ids, matched_rules, append_html, pending, task_id,
                   mergeVars, urlVars, ruleVars>>

\* Lines 252-259: the merged html_notes is written.
UpdateTask ==
    /\ pc = "update_task"
    /\ \E ok \in BOOLEAN :
         /\ calls' = Append(calls, Call("update_task", task_id, ok,
                                        append_to_html_notes(current_html, append_html)))
         /\ GoTo(IF ok THEN "loop" ELSE ExceptApiException("loop"))
    /\ UNCHANGED <<dry_run, env, config, pr_body, changed_files, asana_urls,
                   task_ids, matched_rules, append_html, pending, task_id,
                   current_html, mergeVars, urlVars, ruleVars>>

Next == Start \/ FetchPR \/ LoopNext \/ PostComment \/ GetTask \/ UpdateTask
Spec == Init /\ [][Next]_vars

\* The loop of line 206 runs on: each call is synchronous and returns or
\* raises, and the step after it is taken.
FairSpec ==
    /\ Spec
    /\ WF_vars(LoopNext) /\ WF_vars(PostComment)
    /\ WF_vars(GetTask) /\ WF_vars(UpdateTask)

(***************************************************************************)
(* Properties of main()                                                    *)
(***************************************************************************)
InLoop == pc \in {"loop", "comment", "get_task", "update_task"}

Calls(op) == {i \in DOMAIN calls : calls[i].op = op}
CallsFor(op, t) == {i \in Calls(op) : calls[i].task = t}

AllCommented == \A t \in task_ids : CallsFor("create_story", t) /= {}

AnyInputMissing == \E k \in DOMAIN env : env[k] = None \/ env[k] = <<>>

\* C7: without --dry-run a missing required input ends main() with the
\* failure exit code before any external call; with --dry-run main() goes on
\* without the inputs and never makes an external call.
MissingInputFatal ==
    /\ (~dry_run /\ AnyInputMissing) =>
         /\ calls = <<>>
         /\ pc /= "start" => (pc = "done" /\ exit_code = {FatalExitCode})
    /\ dry_run =>
         /\ calls = <<>>
         /\ exit_code /= {FatalExitCode}
         /\ (pc = "done" /\ AnyInputMissing) => task_ids /= {}

MissingInputFatalWitness ==
    /\ ~dry_run
    /\ env.GITHUB_TOKEN = <<"v">>
    /\ env.ASANA_ACCESS_TOKEN = <<"v">>
    /\ env.GITHUB_REPOSITORY = <<"v">>
    /\ env.PR_NUMBER = <<>>
    /\ pc = "done"
    /\ exit_code = {FatalExitCode}

\* C8: an update_task request follows a successful read of the same task's
\* notes in which the composed block does not occur, only when a rule
\* matched, and carries the merge of the document read with the block; with
\* no matched rule the notes are neither read nor written and the comment
\* is still posted.
NotesUpdateOnlyWhenNeeded ==
    /\ \A i \in Calls("update_task") :
         /\ matched_rules /= <<>>
         /\ i > 1
         /\ calls[i - 1].op = "get_task"
         /\ calls[i - 1].ok
         /\ calls[i - 1].task = calls[i].task
         /\ ~Contains(NotesOrEmpty(calls[i - 1].data), ComposeBlock(matched_rules))
         /\ calls[i].data = append_to_html_notes(NotesOrEmpty(calls[i - 1].data),
                                                 ComposeBlock(matched_rules))
    /\ matched_rules = <<>> =>
         /\ Calls("get_task") = {}
         /\ Calls("update_task") = {}
         /\ (pc = "done" /\ ~dry_run) => AllCommented

NotesUpdateWitness ==
    /\ pc = "done"
    /\ \E i \in Calls("update_task") : Contains(calls[i - 1].data, BodyClose)
    /\ \E i \in Calls("get_task") :
         /\ calls[i].ok
         /\ Contains(NotesOrEmpty(calls[i].data), ComposeBlock(matched_rules))
         /\ (i = Len(calls) \/ calls[i + 1].op /= "update_task")

\* The ids of the references of a description text.
ExpectedIds(body) ==
    {get_task_id_from_url(r) : r \in get_asana_urls(body)} \ {None}

\* C9: the loop processes exactly the ids the references of the description
\* resolve to, an unresolvable reference being dropped, and no id gets more
\* than one comment post or more than one notes update.  The ids are
\* compared where the loop starts and where main() ends; in between the
\* loop only takes ids out of the ones left.
IdentifiersDeduplicated ==
    /\ (pc = "done" \/ (pc = "loop" /\ pending = task_ids)) =>
         LET expected == ExpectedIds(pr_body)
         IN  /\ task_ids = expected
             /\ pc = "done" => pending = {}
             /\ (pc = "done" /\ ~dry_run) =>
                  {calls[i].task : i \in Calls("create_story")} = expected
    /\ InLoop =>
         /\ pending \subseteq task_ids
         /\ pc /= "loop" => task_id \in task_ids \ pending
    /\ \A i \in DOMAIN calls :
         /\ calls[i].op = "create_story" =>
              Cardinality(CallsFor("create_story", calls[i].task)) = 1
         /\ calls[i].op = "update_task" =>
              Cardinality(CallsFor("update_task", calls[i].task)) = 1

IdentifiersDeduplicatedWitness ==
    /\ pc = "done"
    /\ ~dry_run
    /\ Cardinality(asana_urls) = 2
    /\ \A u \in asana_urls : get_task_id_from_url(u) = <<"2">>
    /\ Cardinality(CallsFor("create_story", <<"2">>)) = 1
    /\ Cardinality(CallsFor("update_task", <<"2">>)) = 1

\* The three outcomes of a finished run.
Fatal       == pc = "done" /\ ~dry_run /\ AnyInputMissing
NothingToDo == pc = "done" /\ ~Fatal /\ task_ids = {}
Processed   == pc = "done" /\ ~Fatal /\ task_ids /= {}

====
